---- MODULE Spec2Model ----
(***************************************************************************)
(* Reconciliation scripts of AI_Fitness: each script loads a CSV store,    *)
(* fetches records from the vendor API, merges them under a mode and       *)
(* writes the store back.  A string is a sequence of one-character         *)
(* strings, a CSV line is a sequence of cells, a file is a sequence of     *)
(* lines (the first one is read as the header).                            *)
(***************************************************************************)
EXTENDS Integers, Sequences, FiniteSets, TLC

\* ------------------------------------------------------------------ bounds
MaxDay == 3          \* the calendar of the model: 2024-03-01 .. 2024-03-0<MaxDay>, today is the last day
MaxRuns == 2         \* script runs in one behaviour
MaxRows == 1         \* data rows of the store file found by the first run
MaxBatch == 2        \* activities the vendor API holds

\* ----------------------------------------------------------------- strings
Digits == <<"0", "1", "2", "3", "4", "5", "6", "7", "8", "9">>

\* characters in code-point order (Python compares str by code point)
Alphabet == <<" ", "-", "/", "0", "1", "2", "3", "4", "5", "6", "7", "8", "9", ":",
              "B", "D", "P", "S", "T", "_", "a", "e", "i", "m", "p", "q", "s", "t", "x", "y">>

Ord(c) == CHOOSE i \in 1..Len(Alphabet) : Alphabet[i] = c

\* Python's None: not a string; no cell of a file holds it
None == <<"None">>

RECURSIVE StrLess(_, _)
StrLess(a, b) ==
    IF a = <<>> THEN b # <<>>
    ELSE IF b = <<>> THEN FALSE
    ELSE IF Head(a) = Head(b) THEN StrLess(Tail(a), Tail(b))
    ELSE Ord(Head(a)) < Ord(Head(b))

Contains(s, c) == \E i \in 1..Len(s) : s[i] = c

\* str.split(sep): the pieces between the separators
RECURSIVE Split(_, _)
Split(s, sep) ==
    IF ~Contains(s, sep) THEN <<s>>
    ELSE LET i == CHOOSE k \in 1..Len(s) : s[k] = sep /\ \A j \in 1..(k-1) : s[j] # sep
         IN  <<SubSeq(s, 1, i-1)>> \o Split(SubSeq(s, i+1, Len(s)), sep)

\* str.strip(): leading and trailing blanks removed
RECURSIVE Strip(_)
Strip(s) ==
    IF s = <<>> THEN s
    ELSE IF Head(s) = " " THEN Strip(Tail(s))
    ELSE IF s[Len(s)] = " " THEN Strip(SubSeq(s, 1, Len(s)-1))
    ELSE s

IsDigit(c) == \E i \in 1..10 : Digits[i] = c
DigitVal(c) == (CHOOSE i \in 1..10 : Digits[i] = c) - 1

\* int(s): -1 stands for the ValueError of a text that is not a decimal number
RECURSIVE IntOfDigits(_, _)
IntOfDigits(s, acc) ==
    IF s = <<>> THEN acc ELSE IntOfDigits(Tail(s), 10 * acc + DigitVal(Head(s)))

ParseInt(s) ==
    LET t == Strip(s)
    IN  IF t # <<>> /\ \A i \in 1..Len(t) : IsDigit(t[i]) THEN IntOfDigits(t, 0) ELSE -1

\* the decimal digits of n
RECURSIVE Decimal(_)
Decimal(n) == IF n < 10 THEN <<Digits[n+1]>> ELSE Decimal(n \div 10) \o <<Digits[(n % 10) + 1]>>

\* the number formatted without the padding
Pad2_bug(n) == Decimal(n)

\* f"{n:02d}"
Pad2(n) == IF n < 10 THEN <<"0">> \o Decimal(n) ELSE Decimal(n)

\* date.isoformat() of day d of March 2024
isoformat(d) == <<"2", "0", "2", "4", "-", "0", "3", "-">> \o Pad2(d)

\* the same day as a spreadsheet writes it, M/D/YYYY
USDate(d) == <<"3", "/">> \o Decimal(d) \o <<"/", "2", "0", "2", "4">>

\* --------------------------------------------------------------- csv layer
\* os.path.isfile(CSV_FILE) is false: a value no file content equals
NoFile == << << <<"NoFile">> >> >>

\* csv.writer.writerow: None is written as the empty cell
CsvCell(v) == IF v = None THEN <<>> ELSE v
writerow(row) == [i \in 1..Len(row) |-> CsvCell(row[i])] \o <<>>
\* csv.writer.writerows: the lines of one call
writerows(rows) == [i \in 1..Len(rows) |-> writerow(rows[i])] \o <<>>

Range(s) == {s[i] : i \in 1..Len(s)}
\* list.index(x): the first position of x
index(s, x) == CHOOSE i \in 1..Len(s) : s[i] = x /\ \A j \in 1..(i-1) : s[j] # x
MaxOf(S) == CHOOSE x \in S : \A y \in S : y <= x

\* sorted(keys, reverse=True) of a set of strings
RECURSIVE SortedDesc(_)
SortedDesc(S) ==
    IF S = {} THEN <<>>
    ELSE LET m == CHOOSE x \in S : \A y \in S : ~StrLess(x, y)
         IN  <<m>> \o SortedDesc(S \ {m})

\* ------------------------------------------- garmin_stats.csv (daily rows)
\* The 26 columns of the schema are modelled by three: the key column, a
\* column added to the schema in the middle of the list, and a column that
\* stood after it in the older files.
HDate == <<"D", "a", "t", "e">>
HBP == <<"B", "P">>
HSteps == <<"S", "t", "e", "p", "s">>
headers == <<HDate, HBP, HSteps>>
old_headers == <<HDate, HSteps>>        \* the header of a file written before BP was added

Days == 1..MaxDay
DEFAULT_START_DATE == 1                 \* the configured first day of the history
Today == MaxDay                         \* date.today()
Yesterday == MaxDay - 1

\* normalize_date nested in history_garmin_import.main: raises ValueError
\* (here the value ValueError) when a slash date has a part int() rejects
ValueError == <<"ValueError">>
main_normalize_date(date_str) ==
    IF Contains(date_str, "/")
    THEN LET parts == Split(date_str, "/")
         IN  IF Len(parts) = 3
             THEN LET month == ParseInt(parts[1])
                      day   == ParseInt(parts[2])
                  IN  IF month = -1 \/ day = -1 THEN ValueError
                      ELSE parts[3] \o <<"-">> \o Pad2(month) \o <<"-">> \o Pad2(day)
             ELSE date_str
    ELSE date_str

\* normalize_date of update_yesterday_garmin / daily_garmin_health
normalize_date(date_str) ==
    IF date_str = <<>> THEN None
    ELSE IF Contains(date_str, "-") /\ Len(date_str) = 10 THEN date_str
    ELSE IF Contains(date_str, "/")
    THEN LET parts == Split(date_str, "/")
         IN  IF Len(parts) = 3
             THEN LET month == ParseInt(parts[1])
                      day   == ParseInt(parts[2])
                  IN  IF month = -1 \/ day = -1 THEN date_str
                      ELSE parts[3] \o <<"-">> \o Pad2(month) \o <<"-">> \o Pad2(day)
             ELSE date_str
    ELSE date_str

\* col_mapping of history_garmin_import: old position -> new position
col_mapping_of(file_headers) ==
    [old_idx \in {i \in 1..Len(file_headers) : file_headers[i] \in Range(headers)}
        |-> index(headers, file_headers[old_idx])]

\* new_row = [''] * len(headers), then the mapped cells are copied
remap_row(row, col_mapping) ==
    [new_idx \in 1..Len(headers) |->
        LET from == {i \in DOMAIN col_mapping : i <= Len(row) /\ col_mapping[i] = new_idx}
        IN  IF from = {} THEN <<>> ELSE row[MaxOf(from)]]

\* the row loop of the load (lines 146-156); n_ok rows are delivered by the
\* reader before it raises (n_ok = len(rows) when the file is readable)
RECURSIVE hgi_read_rows(_, _, _, _, _, _)
hgi_read_rows(rows, n_ok, col_mapping, keep, dates, data) ==
    IF rows = <<>> THEN [dates |-> dates, data |-> data, failed |-> FALSE]
    ELSE IF n_ok = 0 THEN [dates |-> dates, data |-> data, failed |-> TRUE]
    ELSE LET row == Head(rows)
         IN  IF row = <<>> THEN hgi_read_rows(Tail(rows), n_ok - 1, col_mapping, keep, dates, data)
             ELSE LET date_str == main_normalize_date(row[1])
                  IN  IF date_str = ValueError
                      THEN [dates |-> dates, data |-> data, failed |-> TRUE]
                      ELSE hgi_read_rows(Tail(rows), n_ok - 1, col_mapping, keep,
                                         dates \cup {date_str},
                                         IF keep THEN (date_str :> remap_row(row, col_mapping)) @@ data
                                         ELSE data)

\* the merge taking the fetched value whenever there is one
merged_row_bug(old_row, row) ==
    [i \in 1..(IF Len(old_row) < Len(row) THEN Len(old_row) ELSE Len(row)) |->
        IF row[i] # None THEN row[i] ELSE old_row[i]]

\* backfill merge of one stored row with the fetched row (lines 369-377)
merged_row(old_row, row) ==
    [i \in 1..(IF Len(old_row) < Len(row) THEN Len(old_row) ELSE Len(row)) |->
        IF old_row[i] # None /\ Strip(old_row[i]) # <<>> THEN old_row[i] ELSE row[i]]

\* a sort key is a tuple of strings; tuples compare element by element
RECURSIVE TupleLess(_, _)
TupleLess(a, b) ==
    IF a = <<>> THEN b # <<>>
    ELSE IF b = <<>> THEN FALSE
    ELSE IF Head(a) = Head(b) THEN TupleLess(Tail(a), Tail(b))
    ELSE StrLess(Head(a), Head(b))

\* list.sort(key=..., reverse=True) on a list of [k |-> key, r |-> row]:
\* descending and stable (rows of equal key keep their order)
RECURSIVE insert_reverse(_, _)
insert_reverse(sorted, e) ==
    IF sorted = <<>> THEN <<e>>
    ELSE IF TupleLess(Head(sorted).k, e.k) THEN <<e>> \o sorted
    ELSE <<Head(sorted)>> \o insert_reverse(Tail(sorted), e)

RECURSIVE sort_reverse(_)
sort_reverse(keyed) ==
    IF keyed = <<>> THEN <<>>
    ELSE insert_reverse(sort_reverse(SubSeq(keyed, 1, Len(keyed) - 1)), keyed[Len(keyed)])

RowsOf(keyed) == [i \in 1..Len(keyed) |-> keyed[i].r] \o <<>>

\* the rows a readable file holds after its first line
DataRows(f) == IF f = NoFile \/ f = <<>> THEN <<>> ELSE Tail(f)

VARIABLES
    dataset,          \* which store file CSV_FILE is
    CSV_FILE,         \* the file on disk: NoFile or its lines
    pc,               \* position of the running script
    script,           \* the script of the current run
    BACKFILL_MODE, FORCE_MODE, START_DATE,
    current_date,     \* loop variable of the day / chunk loop
    existing_dates,   \* keys found in the file at load
    existing_data,    \* history_garmin_import: {date_str: row}
    all_rows,         \* history_garmin_activities: the rows to write at the end
    garmin,           \* the activities the vendor API holds, in the order it returns them
    wbuf,             \* the writer calls of the open rewrite still to come, each with its lines
    runs,             \* runs started so far
    file0,            \* history: the file when the current run started
    fetched,          \* history: what the fetches of the current run returned
    load_error,       \* history: the load of the current run raised
    killed_at,        \* history: pc at which the current run was interrupted
    repeat,           \* history: the current run repeats the completed run before it
    hevy_stats_df,    \* Gemini_Hevy: the rows of the workout log (df_stats)
    exercise_db_df,   \* Gemini_Hevy: the rows of the exercise catalog (df_ex)
    plan,             \* Gemini_Hevy: the routines of the generated plan
    aggregated_stats, \* Gemini_Hevy: what aggregate_training_data returned
    strength_trends,  \* Gemini_Hevy: what calculate_strength_trends returned
    loading_warnings, \* Gemini_Hevy: what validate_variable_loading returned
    posted,           \* Gemini_Hevy: what post_to_hevy was called with
    date_cell,        \* normalize_date: the text it is called with
    normalizer,       \* normalize_date: the script whose normalize_date is called
    normalized,       \* normalize_date: what the call returned (or raised)
    renormalized,     \* normalize_date: what it returned for its own result
    chunks            \* chunk loop: the date ranges asked of the API so far

vars == <<dataset, CSV_FILE, pc, script, BACKFILL_MODE, FORCE_MODE, START_DATE, current_date,
          existing_dates, existing_data, all_rows, garmin, wbuf, runs, file0, fetched, load_error,
          killed_at, repeat, hevy_stats_df, exercise_db_df, plan, aggregated_stats, strength_trends,
          loading_warnings, posted, date_cell, normalizer, normalized, renormalized,
          chunks>>

\* the state of Gemini_Hevy.py, which the Garmin scripts do not touch
hevy_vars == <<hevy_stats_df, exercise_db_df, plan, aggregated_stats, strength_trends,
               loading_warnings, posted>>

\* a call of normalize_date on its own
date_vars == <<date_cell, normalizer, normalized, renormalized>>

EmptyDict == <<>>
Stopped == pc \in {"idle", "done", "killed"}
RunOk == ~load_error /\ killed_at = ""

\* the bookkeeping every run start does
Begin(name, bf, fm, st) ==
    /\ Stopped
    /\ runs < MaxRuns
    /\ runs' = runs + 1
    /\ script' = name
    /\ BACKFILL_MODE' = bf
    /\ FORCE_MODE' = fm
    /\ START_DATE' = st
    /\ current_date' = st
    /\ file0' = CSV_FILE
    /\ killed_at' = ""
    /\ repeat' = (/\ pc = "done" /\ RunOk /\ script = name
                   /\ BACKFILL_MODE = bf /\ FORCE_MODE = fm /\ START_DATE = st)
    /\ UNCHANGED <<dataset, garmin, hevy_vars, date_vars, chunks>>

\* ---------------------------------------------- history_garmin_import.main
\* lines 119-168: load the existing file, or create it with the header
hgi_load_n(bf, fm, st, n_ok) ==
    /\ dataset = "garmin_stats"
    /\ Begin("history_garmin_import", bf, fm, st)
    /\ pc' = "loop"
    /\ fetched' = EmptyDict
    /\ UNCHANGED <<all_rows, wbuf>>
    /\ IF CSV_FILE # NoFile
       THEN LET col_mapping == IF CSV_FILE = <<>> THEN EmptyDict ELSE col_mapping_of(CSV_FILE[1])
                r == hgi_read_rows(DataRows(CSV_FILE), n_ok, col_mapping, bf \/ fm, {}, EmptyDict)
            IN  /\ existing_dates' = r.dates
                /\ existing_data' = r.data
                /\ load_error' = r.failed
                /\ UNCHANGED CSV_FILE
       ELSE /\ CSV_FILE' = <<headers>>
            /\ existing_dates' = {}
            /\ existing_data' = EmptyDict
            /\ load_error' = FALSE

hgi_load(bf, fm, st) == hgi_load_n(bf, fm, st, Len(DataRows(CSV_FILE)))

\* the reader raises after n_ok rows (I/O or decoding error): lines 163-164
hgi_load_fail(bf, fm, st, n_ok) ==
    /\ CSV_FILE # NoFile
    /\ n_ok < Len(DataRows(CSV_FILE))
    /\ hgi_load_n(bf, fm, st, n_ok)

\* what the API calls of one day give for the two data columns; None is a
\* value the API did not deliver (no data that day, or the call raised)
Incoming == {<<None, None>>, <<<<"y">>, <<"y">>>>}

\* lines 174-178: a day already in the file is skipped in normal mode
hgi_skips(day_str, dates, bf, fm) == day_str \in dates /\ ~bf /\ ~fm

\* force mode merging into the stored row as backfill does
hgi_reconcile_bug(data, day_str, row, bf, fm) ==
    IF (bf \/ fm) /\ day_str \in DOMAIN data
    THEN (day_str :> merged_row(data[day_str], row)) @@ data
    ELSE (day_str :> row) @@ data

\* backfill leaving a stored row as it is
hgi_reconcile_keep_bug(data, day_str, row, bf, fm) ==
    IF fm THEN (day_str :> row) @@ data
    ELSE IF bf /\ day_str \in DOMAIN data THEN data
    ELSE (day_str :> row) @@ data

\* lines 362-380: the fetched row enters existing_data (force, backfill)
hgi_reconcile(data, day_str, row, bf, fm) ==
    IF fm THEN (day_str :> row) @@ data
    ELSE IF bf /\ day_str \in DOMAIN data
    THEN (day_str :> merged_row(data[day_str], row)) @@ data
    ELSE (day_str :> row) @@ data

\* lines 171-393: one pass of the day loop
hgi_day(vals) ==
    /\ pc = "loop"
    /\ script = "history_garmin_import"
    /\ current_date <= Yesterday
    /\ LET day_str == isoformat(current_date)
           row == <<day_str>> \o vals
       IN  IF hgi_skips(day_str, existing_dates, BACKFILL_MODE, FORCE_MODE)
           THEN /\ vals = <<None, None>>              \* nothing is fetched
                /\ UNCHANGED <<CSV_FILE, existing_data, fetched>>
           ELSE /\ fetched' = (day_str :> row) @@ fetched
                /\ IF FORCE_MODE \/ BACKFILL_MODE
                   THEN /\ existing_data' = hgi_reconcile(existing_data, day_str, row,
                                                          BACKFILL_MODE, FORCE_MODE)
                        /\ UNCHANGED CSV_FILE
                   ELSE \* normal mode: open(CSV_FILE, mode='a'), one row appended
                        /\ CSV_FILE' = (IF CSV_FILE = NoFile THEN <<>> ELSE CSV_FILE) \o <<writerow(row)>>
                        /\ UNCHANGED existing_data
    /\ current_date' = current_date + 1
    /\ UNCHANGED <<dataset, pc, script, BACKFILL_MODE, FORCE_MODE, START_DATE, existing_dates,
                   all_rows, garmin, wbuf, runs, file0, load_error, killed_at, repeat,
                   hevy_vars, date_vars, chunks>>

\* lines 395-405: after the loop, backfill and force rewrite the file
hgi_finish ==
    /\ pc = "loop"
    /\ script = "history_garmin_import"
    /\ current_date > Yesterday
    /\ IF (BACKFILL_MODE \/ FORCE_MODE) /\ existing_data # EmptyDict
       THEN LET sorted_dates == SortedDesc(DOMAIN existing_data)
            IN  /\ CSV_FILE' = <<>>                       \* open(CSV_FILE, mode='w')
                /\ wbuf' = <<<<headers>>>> \o [i \in 1..Len(sorted_dates) |->
                                                <<writerow(existing_data[sorted_dates[i]])>>]
                /\ pc' = "write"
       ELSE /\ pc' = "done"
            /\ UNCHANGED <<CSV_FILE, wbuf>>
    /\ existing_dates' = {}
    /\ existing_data' = EmptyDict
    /\ UNCHANGED <<dataset, script, BACKFILL_MODE, FORCE_MODE, START_DATE, current_date,
                   all_rows, garmin, runs, file0, fetched, load_error, killed_at, repeat,
                   hevy_vars, date_vars, chunks>>

\* the next writer.writerow / writer.writerows call of the open rewrite
writer_call ==
    /\ pc = "write"
    /\ wbuf # <<>>
    /\ CSV_FILE' = CSV_FILE \o Head(wbuf)
    /\ wbuf' = Tail(wbuf)
    /\ pc' = IF Tail(wbuf) = <<>> THEN "done" ELSE "write"
    /\ UNCHANGED <<dataset, script, BACKFILL_MODE, FORCE_MODE, START_DATE, current_date,
                   existing_dates, existing_data, all_rows, garmin, runs, file0, fetched, load_error,
                   killed_at, repeat,
                   hevy_vars, date_vars, chunks>>

\* ------------- update_yesterday_garmin.save_to_csv, daily_garmin_health.main
\* The two scripts save one day's row with the same code: the first one
\* yesterday's (save_to_csv, lines 293-338), the second one today's
\* (main, lines 272-322).  n_ok lines are read before the reader raises.
\* Every stored row carries a date: the sort key of a row without one is
\* None, which list.sort cannot compare with a string.
save_to_csv_n(name, target_day, vals, n_ok) ==
    /\ dataset = "garmin_stats"
    /\ Begin(name, FALSE, FALSE, target_day)
    /\ LET target_date == isoformat(target_day)
           new_row == <<target_date>> \o vals
           read_failed == CSV_FILE # NoFile /\ n_ok < Len(CSV_FILE)
           Keep(row) == row # <<>> /\ normalize_date(row[1]) # target_date
           rows == SelectSeq(DataRows(CSV_FILE), Keep) \o <<new_row>>
           Keyed(row) == [k |-> <<IF row # <<>> THEN normalize_date(row[1]) ELSE <<>>>>, r |-> row]
           keyed == [i \in 1..Len(rows) |-> Keyed(rows[i])] \o <<>>
           sorted == RowsOf(sort_reverse(keyed))
       IN  /\ fetched' = (target_date :> new_row)
           /\ load_error' = read_failed
           /\ IF read_failed
              THEN /\ pc' = "done"
                   /\ UNCHANGED <<CSV_FILE, wbuf>>
              ELSE /\ CSV_FILE' = <<>>                    \* open(CSV_FILE, mode='w')
                   /\ wbuf' = <<<<headers>>, writerows(sorted)>>
                   /\ pc' = "write"
    /\ UNCHANGED <<existing_dates, existing_data, all_rows>>

FileLen == IF CSV_FILE = NoFile THEN 0 ELSE Len(CSV_FILE)

save_to_csv(target_day, vals) ==
    save_to_csv_n("update_yesterday_garmin", target_day, vals, FileLen)

daily_garmin_health(target_day, vals) ==
    save_to_csv_n("daily_garmin_health", target_day, vals, FileLen)

save_to_csv_fail(target_day, vals, n_ok) ==
    /\ n_ok < FileLen
    /\ save_to_csv_n("update_yesterday_garmin", target_day, vals, n_ok)

\* ------------------------------------- garmin_activities.csv (activity rows)
\* The 38 columns of the schema are modelled by three: Date, Time and one
\* data column.
HTime == <<"T", "i", "m", "e">>
HName == <<"a", "c", "t">>
HEADERS == <<HDate, HTime, HName>>
ChunkDays == 30

\* extract_activity_data losing the clock time of the activity
extract_activity_data_bug(act) == <<isoformat(act.day), <<>>, act.title>>

\* extract_activity_data: the row of one activity of the API
extract_activity_data(act) == <<isoformat(act.day), act.time, act.title>>

\* [extract_activity_data(act) for act in activities]
extract_rows(activities) == [i \in 1..Len(activities) |-> extract_activity_data(activities[i])] \o <<>>

\* api.get_activities_by_date(from, to): the activities of these days, in API order
get_activities_by_date(from, to) ==
    LET InRange(act) == from <= act.day /\ act.day <= to
    IN  SelectSeq(garmin, InRange)

\* f"{date_str}_{time_str}"
sig_of(date_str, time_str) == date_str \o <<"_">> \o time_str

\* daily_garmin_activities.main, lines 210-288, up to the open of the rewrite.
\* n_ok rows are read before the reader raises; fetch_ok: the API call returns.
\* A file the first read (lines 216-224) fails on fails the second read
\* (lines 268-272) at the same row; that exception ends the run (line 287).
dga_n(n_ok, fetch_ok) ==
    /\ dataset = "garmin_activities"
    /\ Begin("daily_garmin_activities", FALSE, FALSE, Today - 3)
    /\ LET rows0 == DataRows(CSV_FILE)
           readable == SubSeq(rows0, 1, n_ok)
           existing_ids == {sig_of(readable[i][1], readable[i][2]) :
                               i \in {j \in 1..Len(readable) : Len(readable[j]) > 1}}
           activities == get_activities_by_date(Today - 3, Today)
           IsNew(act) == sig_of(isoformat(act.day), act.time) \notin existing_ids
           new_rows == extract_rows(SelectSeq(activities, IsNew))
           rows == rows0 \o new_rows
           Keyed(row) == [k |-> IF Len(row) > 1 THEN <<row[1], row[2]>> ELSE <<<<>>, <<>>>>, r |-> row]
           keyed == [i \in 1..Len(rows) |-> Keyed(rows[i])] \o <<>>
           sorted == RowsOf(sort_reverse(keyed))
           read_failed == n_ok < Len(rows0)
       IN  /\ load_error' = read_failed
           /\ fetched' = IF fetch_ok THEN extract_rows(activities) ELSE <<>>
           /\ IF fetch_ok /\ new_rows # <<>> /\ ~read_failed
              THEN /\ CSV_FILE' = <<>>                    \* open(CSV_FILE, mode='w')
                   /\ wbuf' = <<<<HEADERS>>, writerows(sorted)>>
                   /\ pc' = "write"
              ELSE /\ pc' = "done"
                   /\ UNCHANGED <<CSV_FILE, wbuf>>
    /\ UNCHANGED <<existing_dates, existing_data, all_rows>>

daily_garmin_activities == dga_n(Len(DataRows(CSV_FILE)), TRUE)

dga_fail(n_ok, fetch_ok) ==
    /\ n_ok <= Len(DataRows(CSV_FILE))
    /\ n_ok < Len(DataRows(CSV_FILE)) \/ ~fetch_ok
    /\ dga_n(n_ok, fetch_ok)

\* history_garmin_activities.main (history_garmin_runs.main has the same
\* code), lines 235-263: the load
hga_load_n(fm, st, n_ok) ==
    /\ dataset = "garmin_activities"
    /\ Begin("history_garmin_activities", FALSE, fm, st)
    /\ pc' = "loop"
    /\ fetched' = <<>>
    /\ LET rows0 == DataRows(CSV_FILE)
           readable == SelectSeq(SubSeq(rows0, 1, n_ok), LAMBDA row : row # <<>>)
           failed == n_ok < Len(rows0)
           ids == {<<readable[i][1], IF Len(readable[i]) > 1 THEN readable[i][2] ELSE <<>>>> :
                      i \in 1..Len(readable)}
       IN  /\ load_error' = failed
           /\ IF fm /\ ~failed
              THEN existing_dates' = {} /\ all_rows' = <<>>
              ELSE existing_dates' = ids /\ all_rows' = readable
    /\ UNCHANGED <<CSV_FILE, existing_data, wbuf>>

hga_load(fm, st) == hga_load_n(fm, st, Len(DataRows(CSV_FILE)))

hga_load_fail(fm, st, n_ok) ==
    /\ n_ok < Len(DataRows(CSV_FILE))
    /\ hga_load_n(fm, st, n_ok)

MinOf2(a, b) == IF a < b THEN a ELSE b

\* lines 265-300: one chunk of the fetch loop
hga_chunk(fetch_ok) ==
    /\ pc = "loop"
    /\ script = "history_garmin_activities"
    /\ current_date < Today
    /\ LET chunk_end == MinOf2(current_date + ChunkDays, Today)
           activities == IF fetch_ok THEN get_activities_by_date(current_date, chunk_end) ELSE <<>>
           IsNew(act) == <<isoformat(act.day), act.time>> \notin existing_dates
       IN  /\ all_rows' = all_rows \o extract_rows(SelectSeq(activities, IsNew))
           /\ fetched' = fetched \o extract_rows(activities)
           /\ current_date' = chunk_end + 1
    /\ UNCHANGED <<dataset, CSV_FILE, pc, script, BACKFILL_MODE, FORCE_MODE, START_DATE,
                   existing_dates, existing_data, garmin, wbuf, runs, file0, load_error,
                   killed_at, repeat,
                   hevy_vars, date_vars, chunks>>

\* lines 302-311: the final write
hga_finish ==
    /\ pc = "loop"
    /\ script = "history_garmin_activities"
    /\ current_date >= Today
    /\ IF all_rows # <<>>
       THEN LET Keyed(row) == [k |-> <<row[1], row[2]>>, r |-> row]
                keyed == [i \in 1..Len(all_rows) |-> Keyed(all_rows[i])] \o <<>>
            IN  /\ CSV_FILE' = <<>>                       \* open(CSV_FILE, mode='w')
                /\ wbuf' = <<<<HEADERS>>, writerows(RowsOf(sort_reverse(keyed)))>>
                /\ pc' = "write"
       ELSE /\ pc' = "done"
            /\ UNCHANGED <<CSV_FILE, wbuf>>
    /\ existing_dates' = {}
    /\ all_rows' = <<>>
    /\ UNCHANGED <<dataset, script, BACKFILL_MODE, FORCE_MODE, START_DATE, current_date,
                   existing_data, garmin, runs, file0, fetched, load_error, killed_at, repeat,
                   hevy_vars, date_vars, chunks>>

\* ------------------------------------------------------------ environment
\* the process is interrupted (Ctrl+C) between two statements; the with
\* block closes the file, so what the calls made so far wrote is on disk
Interrupt ==
    /\ pc \in {"loop", "write"}
    /\ pc' = "killed"
    /\ killed_at' = pc
    /\ existing_dates' = {}
    /\ existing_data' = EmptyDict
    /\ all_rows' = <<>>
    /\ wbuf' = <<>>                                       \* the calls to come die with the process
    /\ UNCHANGED <<dataset, CSV_FILE, script, BACKFILL_MODE, FORCE_MODE, START_DATE, current_date,
                   garmin, runs, file0, fetched, load_error, repeat,
                   hevy_vars, date_vars, chunks>>

\* ------------------------------------------------- Gemini_Hevy.py: analysis
MaxSets == 2        \* rows of the workout log
MaxPlanSets == 3    \* sets of one exercise of the plan

\* A float is modelled by the exact fraction [n, d] with d > 0.
Frac(n, d) == [n |-> n, d |-> d]
FracAdd(a, b) == Frac(a.n * b.d + b.n * a.d, a.d * b.d)
FracMul(a, b) == Frac(a.n * b.n, a.d * b.d)
FracLess(a, b) == a.n * b.d < b.n * a.d
FracEq(a, b) == a.n * b.d = b.n * a.d

\* round(x * scale) to the nearest integer, halves to the even one
RoundHalfEven(n, d) ==
    LET q == n \div d
        r == n % d
    IN  IF 2 * r < d THEN q
        ELSE IF 2 * r > d THEN q + 1
        ELSE IF q % 2 = 0 THEN q ELSE q + 1

\* .round(2), the result counted in hundredths
Round2(x) == RoundHalfEven(100 * x.n, x.d)
\* .round(1), the result counted in tenths
Round1(x) == RoundHalfEven(10 * x.n, x.d)

\* max() of a non-empty set of fractions
MaxFrac(S) == CHOOSE x \in S : \A y \in S : ~FracLess(x, y)
MinOf(S) == CHOOSE x \in S : \A y \in S : x <= y

\* NaN of a column of labels; Python's None as a return value; a variable
\* whose function has not been called
NaN == "NaN"
NoResult == [none |-> TRUE]
Pending == [pending |-> TRUE]

\* calculate_one_rep_max without the test for a set without reps or weight
calculate_one_rep_max_bug(weight, reps) ==
    FracMul(Frac(weight, 1), FracAdd(Frac(1, 1), Frac(reps, 30)))

\* calculate_one_rep_max (Epley): weight * (1 + reps / 30)
calculate_one_rep_max(weight, reps) ==
    IF reps = 0 \/ weight = 0 THEN Frac(0, 1)
    ELSE FracMul(Frac(weight, 1), FracAdd(Frac(1, 1), Frac(reps, 30)))

\* datetime.now(), in months, and the windows main asks for
Now == 13
AggMonths == 6
RecentMonths == 3
HistoryMonths == 12

\* the exercise catalog (df_ex), title and primary muscle group: one whose
\* titles are all different, and one that lists an exercise twice
UniqueTitles ==
    << [title |-> <<"s">>, primary_muscle_group |-> "legs"],
       [title |-> <<"a", " ">>, primary_muscle_group |-> "arms"] >>
RepeatedTitle == UniqueTitles \o << [title |-> <<"a">>, primary_muscle_group |-> "arms"] >>
Catalogs == {UniqueTitles, RepeatedTitle}

\* the filter keeping every row, whatever its date
in_window_bug(df, cutoff_date) == df

\* hevy_stats_df[hevy_stats_df['Date'] >= cutoff_date]
in_window(df, cutoff_date) ==
    LET Recent(row) == row.Date >= cutoff_date
    IN  SelectSeq(df, Recent)

\* DataFrame.merge(..., how='left') on the stripped names: every row of the
\* log once per catalog entry of its name, or once with NaN when there is none
RECURSIVE merge_left(_, _)
merge_left(rows, db) ==
    IF rows = <<>> THEN <<>>
    ELSE LET row == Head(rows)
             Match(e) == Strip(e.title) = Strip(row.Exercise)
             found == SelectSeq(db, Match)
             Joined(g) == [Date |-> row.Date, Exercise |-> row.Exercise, Weight |-> row.Weight,
                           Reps |-> row.Reps,
                           estimated_1rm |-> calculate_one_rep_max(row.Weight, row.Reps),
                           volume |-> row.Weight * row.Reps,
                           primary_muscle_group |-> g]
         IN  (IF found = <<>> THEN <<Joined(NaN)>>
              ELSE [i \in 1..Len(found) |-> Joined(found[i].primary_muscle_group)] \o <<>>)
             \o merge_left(Tail(rows), db)

\* the sum of the weights, the reps left out
RECURSIVE volume_sum_bug(_)
volume_sum_bug(rows) == IF rows = <<>> THEN 0 ELSE Head(rows).Weight + volume_sum_bug(Tail(rows))

\* Series.sum()
RECURSIVE volume_sum(_)
volume_sum(rows) == IF rows = <<>> THEN 0 ELSE Head(rows).volume + volume_sum(Tail(rows))

\* groupby sorts its keys: a set of names in ascending order
RECURSIVE SortedAsc(_)
SortedAsc(S) ==
    IF S = {} THEN <<>>
    ELSE LET m == CHOOSE x \in S : \A y \in S : ~StrLess(y, x)
         IN  <<m>> \o SortedAsc(S \ {m})

\* sort_values on an integer key, ascending; rows of equal key keep their order
RECURSIVE insert_by_key(_, _)
insert_by_key(sorted, e) ==
    IF sorted = <<>> THEN <<e>>
    ELSE IF e.k < Head(sorted).k THEN <<e>> \o sorted
    ELSE <<Head(sorted)>> \o insert_by_key(Tail(sorted), e)

RECURSIVE sort_by_key(_)
sort_by_key(keyed) ==
    IF keyed = <<>> THEN <<>>
    ELSE insert_by_key(sort_by_key(SubSeq(keyed, 1, Len(keyed) - 1)), keyed[Len(keyed)])

\* groupby('primary_muscle_group').agg(max, sum, count).round(2): rows
\* whose group is NaN belong to no group
muscle_group_stats_of(merged_data) ==
    LET groups == {merged_data[i].primary_muscle_group : i \in 1..Len(merged_data)} \ {NaN}
        Of(g) == SelectSeq(merged_data, LAMBDA row : row.primary_muscle_group = g)
    IN  [g \in groups |->
            [Max_1RM_lbs |-> Round2(MaxFrac({Of(g)[i].estimated_1rm : i \in 1..Len(Of(g))})),
             Total_Volume_lbs |-> 100 * volume_sum(Of(g)),
             Total_Sets |-> Len(Of(g))]]

\* groupby('Exercise').agg(max, max, max, first).round(2), then
\* sort_values('Estimated_1RM', ascending=False)
exercise_prs_of(merged_data) ==
    LET names == SortedAsc({merged_data[i].Exercise : i \in 1..Len(merged_data)})
        Of(e) == SelectSeq(merged_data, LAMBDA row : row.Exercise = e)
        Known(e) == SelectSeq(Of(e), LAMBDA row : row.primary_muscle_group # NaN)
        Pr(e) == [Exercise |-> e,
                  Estimated_1RM |-> Round2(MaxFrac({Of(e)[i].estimated_1rm : i \in 1..Len(Of(e))})),
                  Max_Weight |-> 100 * MaxOf({Of(e)[i].Weight : i \in 1..Len(Of(e))}),
                  Max_Reps |-> MaxOf({Of(e)[i].Reps : i \in 1..Len(Of(e))}),
                  Muscle_Group |-> IF Known(e) = <<>> THEN NaN ELSE Known(e)[1].primary_muscle_group]
        keyed == [i \in 1..Len(names) |-> [k |-> 0 - Pr(names[i]).Estimated_1RM, r |-> Pr(names[i])]] \o <<>>
    IN  RowsOf(sort_by_key(keyed))

\* aggregate_training_data without the test for an empty window
aggregate_training_data_bug(df, db, months) ==
    LET recent_data == in_window(df, Now - months)
        merged_data == merge_left(recent_data, db)
        dates == {recent_data[i].Date : i \in 1..Len(recent_data)}
    IN  [muscle_group_summary |-> muscle_group_stats_of(merged_data),
         exercise_prs |-> exercise_prs_of(merged_data),
         total_workouts |-> Cardinality(dates),
         date_range |-> IF dates = {} THEN <<>> ELSE <<MinOf(dates), MaxOf(dates)>>]

\* aggregate_training_data(hevy_stats_df, exercise_db_df, months)
aggregate_training_data(df, db, months) ==
    LET cutoff_date == Now - months
        recent_data == in_window(df, cutoff_date)
        merged_data == merge_left(recent_data, db)
        dates == {recent_data[i].Date : i \in 1..Len(recent_data)}
    IN  IF recent_data = <<>> THEN NoResult
        ELSE [muscle_group_summary |-> muscle_group_stats_of(merged_data),
              exercise_prs |-> exercise_prs_of(merged_data),
              total_workouts |-> Cardinality(dates),
              date_range |-> <<MinOf(dates), MaxOf(dates)>>]

FracSub(a, b) == Frac(a.n * b.d - b.n * a.d, a.d * b.d)
\* a / b for b > 0
FracDiv(a, b) == Frac(a.n * b.d, a.d * b.n)

\* the lambda of line 190-192 on a Trend_Pct counted in tenths; every
\* comparison with NaN is false
trend_status(x, isnan) ==
    IF ~isnan /\ -20 <= x /\ x <= 20 THEN "PLATEAU"
    ELSE IF ~isnan /\ x < -20 THEN "REGRESSING"
    ELSE "PROGRESSING"

\* the smallest estimated 1RM of one exercise instead of the largest
max_1rm_bug(rows, e) ==
    LET all == {calculate_one_rep_max(rows[i].Weight, rows[i].Reps) :
                   i \in {j \in 1..Len(rows) : rows[j].Exercise = e}}
    IN  CHOOSE x \in all : \A y \in all : ~FracLess(y, x)

\* groupby('Exercise')['estimated_1rm'].max() for one exercise
max_1rm(rows, e) ==
    MaxFrac({calculate_one_rep_max(rows[i].Weight, rows[i].Reps) :
                i \in {j \in 1..Len(rows) : rows[j].Exercise = e}})

\* calculate_strength_trends(hevy_stats_df, recent_months, history_months)
calculate_strength_trends(stats, recent_months, history_months) ==
    LET recent_cutoff == Now - recent_months
        history_cutoff == Now - history_months
        df == in_window(stats, history_cutoff)
        recent_data == in_window(df, recent_cutoff)
        recent_names == {recent_data[i].Exercise : i \in 1..Len(recent_data)}
        all_names == {df[i].Exercise : i \in 1..Len(df)}
        \* DataFrame of the two Series, dropna(): the names both Series hold
        names == SortedAsc(recent_names \cap all_names)
        Trend(e) ==
            LET Recent_1RM == max_1rm(recent_data, e)
                AllTime_1RM == max_1rm(df, e)
                \* 0.0 / 0.0 is NaN
                isnan == AllTime_1RM.n = 0
                pct == IF isnan THEN Frac(0, 1)
                       ELSE FracMul(FracDiv(FracSub(Recent_1RM, AllTime_1RM), AllTime_1RM), Frac(100, 1))
            IN  [Exercise |-> e, Recent_1RM |-> Recent_1RM, AllTime_1RM |-> AllTime_1RM,
                 Trend_Pct |-> Round1(pct), Trend_Pct_isnan |-> isnan,
                 Status |-> trend_status(Round1(pct), isnan)]
        trends == [i \in 1..Len(names) |-> Trend(names[i])] \o <<>>
        numbers == SelectSeq(trends, LAMBDA t : ~t.Trend_Pct_isnan)
        nans == SelectSeq(trends, LAMBDA t : t.Trend_Pct_isnan)
        keyed == [i \in 1..Len(numbers) |-> [k |-> numbers[i].Trend_Pct, r |-> numbers[i]]] \o <<>>
    IN  IF df = <<>> THEN NoResult
        ELSE IF recent_data = <<>> THEN NoResult
        ELSE IF trends = <<>> THEN NoResult
        \* sort_values('Trend_Pct'): ascending, NaN last
        ELSE [trends |-> RowsOf(sort_by_key(keyed)) \o nans]

\* the weights of every set, whatever its type
normal_weights_bug(sets) == [i \in 1..Len(sets) |-> sets[i].weight_kg] \o <<>>

\* [s.get('weight_kg', 0) for s in sets if s.get('type') == 'normal']
normal_weights(sets) ==
    LET normal == SelectSeq(sets, LAMBDA s : s.type = "normal")
    IN  [i \in 1..Len(normal) |-> normal[i].weight_kg] \o <<>>

\* the loop over the exercises of one routine (lines 206-220); the issue
\* text is modelled by the two numbers it is formatted from
RECURSIVE exercise_warnings(_, _)
exercise_warnings(routine, exercises) ==
    IF exercises = <<>> THEN <<>>
    ELSE LET exercise == Head(exercises)
             sets == exercise.sets
             weights == normal_weights(sets)
         IN  (IF Len(sets) >= 2 /\ Cardinality(Range(weights)) = 1 /\ Len(weights) > 1
              THEN << [routine |-> routine.title, exercise_id |-> exercise.exercise_template_id,
                       issue |-> <<weights[1], Len(weights)>>] >>
              ELSE <<>>)
             \o exercise_warnings(routine, Tail(exercises))

\* validate_variable_loading(routines_json)
RECURSIVE validate_variable_loading(_)
validate_variable_loading(routines) ==
    IF routines = <<>> THEN <<>>
    ELSE exercise_warnings(Head(routines), Head(routines).exercises)
         \o validate_variable_loading(Tail(routines))

\* the variables of the Garmin scripts, which Gemini_Hevy.py does not touch
garmin_vars == <<dataset, CSV_FILE, script, BACKFILL_MODE, FORCE_MODE, START_DATE, current_date,
                 existing_dates, existing_data, all_rows, garmin, wbuf, runs, file0, fetched,
                 load_error, killed_at, repeat>>

\* generate_monthly_plan, line 393
hevy_aggregate ==
    /\ dataset = "hevy"
    /\ pc = "idle"
    /\ aggregated_stats' = aggregate_training_data(hevy_stats_df, exercise_db_df, AggMonths)
    /\ pc' = "aggregated"
    /\ UNCHANGED <<garmin_vars, date_vars, chunks, hevy_stats_df, exercise_db_df, plan, strength_trends, loading_warnings, posted>>

\* generate_monthly_plan, line 408
hevy_trends ==
    /\ dataset = "hevy"
    /\ pc = "aggregated"
    /\ strength_trends' = calculate_strength_trends(hevy_stats_df, RecentMonths, HistoryMonths)
    /\ pc' = "planned"
    /\ UNCHANGED <<garmin_vars, date_vars, chunks, hevy_stats_df, exercise_db_df, plan, aggregated_stats, loading_warnings, posted>>

\* `for exercise in routine.get('exercises', [])` over a routine whose
\* exercises are null raises TypeError
validator_raises(routines) == \E r \in 1..Len(routines) : routines[r].exercises = None

\* __main__, lines 537-544: the validation; an exception leaves the try
\* block (line 547) before loading_warnings is bound
hevy_validate ==
    /\ dataset = "hevy"
    /\ pc = "planned"
    /\ IF validator_raises(plan)
       THEN pc' = "failed" /\ UNCHANGED loading_warnings
       ELSE /\ loading_warnings' = [warnings |-> validate_variable_loading(plan)]
            /\ pc' = "validated"
    /\ UNCHANGED <<garmin_vars, date_vars, chunks, hevy_stats_df, exercise_db_df, plan, aggregated_stats, strength_trends, posted>>

\* the call without its argument
post_argument_bug(routines_json) == <<>>

\* the argument of the call post_to_hevy(plan)
post_argument(routines_json) == routines_json

\* __main__, line 546: post_to_hevy is called, whatever the warnings were
hevy_post ==
    /\ dataset = "hevy"
    /\ pc = "validated"
    /\ posted' = [plan |-> post_argument(plan)]
    /\ pc' = "done"
    /\ UNCHANGED <<garmin_vars, date_vars, chunks, hevy_stats_df, exercise_db_df, plan, aggregated_stats, strength_trends,
                   loading_warnings>>

\* ---------------------------------------------- Gemini_Hevy.py: the inputs
\* Gemini_Hevy.py at rest
HevyIdle ==
    /\ aggregated_stats = Pending
    /\ strength_trends = Pending
    /\ loading_warnings = Pending
    /\ posted = Pending

\* the dates of the log: outside every window, and the first month of the
\* history, the aggregation and the recent window
HevyDates == {Now - HistoryMonths - 1, Now - HistoryMonths, Now - AggMonths, Now - RecentMonths}
\* names of the log: in the catalog after strip (both ways), and unknown
ExerciseNames == {<<"s", " ">>, <<"a">>, <<"p">>}
Weights == {0, 48, 49}
RepCounts == {0, 10}

\* the rows a log can hold
LogRows == [Date : HevyDates, Exercise : ExerciseNames, Weight : Weights, Reps : RepCounts]

\* history_hevy_import writes the log sorted by date, newest first
NewestFirst(df) == \A i \in 1..(Len(df) - 1) : df[i].Date >= df[i + 1].Date

\* at most n sets of an exercise of the plan
RECURSIVE PlanSetSeqs(_)
PlanSetSeqs(n) ==
    {<<>>} \cup
    IF n = 0 THEN {}
    ELSE {<<[type |-> t, weight_kg |-> w]>> \o s :
             t \in {"normal", "warmup"}, w \in {40, 45}, s \in PlanSetSeqs(n - 1)}

Plans ==
    {<< [title |-> "r1",
         exercises |-> << [exercise_template_id |-> "e1", sets |-> s1],
                          [exercise_template_id |-> "e2", sets |-> s2] >>] >> :
        s1 \in PlanSetSeqs(MaxPlanSets), s2 \in PlanSetSeqs(1)}
    \cup {<< [title |-> "r1", exercises |-> None] >>}      \* "exercises": null


\* ------------------------------------------------- normalize_date on its own
\* the texts a date cell can hold: slash dates with parts of every kind,
\* ISO dates, and texts of neither form
MonthTexts == {<<"3">>, <<"0", "3">>, <<"1", "2">>, <<" ", "3">>, <<"a">>, <<>>}
DayTexts == {<<"4">>, <<"0", "4">>, <<"3", "1">>, <<"x">>}
YearTexts == {<<"2", "0", "2", "4">>, <<"2", "4">>}
DateTexts ==
    {m \o <<"/">> \o d \o <<"/">> \o y : m \in MonthTexts, d \in DayTexts, y \in YearTexts}
    \cup {isoformat(d) : d \in Days}
    \cup {<<>>, <<"3", "/", "4">>, <<"2", "0", "2", "4", "-", "3", "-", "4">>,
          <<"2", "0", "2", "4", "0", "3", "0", "4">>, <<"3", "/", "4", "/", "2", "0", "2", "4", "/", "5">>}

\* the three copies of normalize_date: the one nested in
\* history_garmin_import.main, and the one update_yesterday_garmin and
\* daily_garmin_health share line by line
Normalizers == {"history_garmin_import", "update_yesterday_garmin", "daily_garmin_health"}
normalize_date_of(name, text) ==
    IF name = "history_garmin_import" THEN main_normalize_date(text) ELSE normalize_date(text)

NotCalled == <<"NotCalled">>

DateIdle ==
    /\ date_cell = <<>>
    /\ normalizer = ""
    /\ normalized = NotCalled
    /\ renormalized = NotCalled

\* normalize_date(date_str)
call_normalize_date ==
    /\ dataset = "dates"
    /\ pc = "idle"
    /\ normalized' = normalize_date_of(normalizer, date_cell)
    /\ pc' = "normalized"
    /\ UNCHANGED <<garmin_vars, hevy_vars, chunks, date_cell, normalizer, renormalized>>

\* normalize_date(normalize_date(date_str)): there is a second call when
\* the first one returned a string
call_normalize_date_again ==
    /\ dataset = "dates"
    /\ pc = "normalized"
    /\ normalized \notin {ValueError, None}
    /\ renormalized' = normalize_date_of(normalizer, normalized)
    /\ pc' = "renormalized"
    /\ UNCHANGED <<garmin_vars, hevy_vars, chunks, date_cell, normalizer, normalized>>

\* ------------------------------------------------ the chunk loop on its own
\* The loop of history_garmin_activities.main, history_garmin_runs.main and
\* garmin_runs_history.main over a calendar long enough for several chunks:
\* day 1 .. day MaxChunkDay, the last one being today.
MaxChunkDay == 64
ChunkStarts == 1..MaxChunkDay

\* while current < end: one pass (the fetch of the range and the step)
fetch_chunk ==
    /\ dataset = "chunks"
    /\ pc = "loop"
    /\ current_date < MaxChunkDay
    /\ LET chunk_end == MinOf2(current_date + ChunkDays, MaxChunkDay)
       IN  /\ chunks' = Append(chunks, <<current_date, chunk_end>>)
           /\ current_date' = chunk_end + 1
    /\ UNCHANGED <<dataset, CSV_FILE, pc, script, BACKFILL_MODE, FORCE_MODE, START_DATE,
                   existing_dates, existing_data, all_rows, garmin, wbuf, runs, file0, fetched,
                   load_error, killed_at, repeat, hevy_vars, date_vars>>

\* the loop condition is false
fetch_done ==
    /\ dataset = "chunks"
    /\ pc = "loop"
    /\ ~(current_date < MaxChunkDay)
    /\ pc' = "done"
    /\ UNCHANGED <<garmin_vars, hevy_vars, date_vars, chunks>>

\* ------------------------------------------------------------ initial state
\* the rows a garmin_stats.csv with header h can hold for day d: written by
\* the program without and with a BP value, or saved by a spreadsheet (US
\* date, a blank typed into the empty cell)
StatsRows(h, d) ==
    IF h = headers
    THEN {<<isoformat(d), <<>>, <<"x">>>>, <<isoformat(d), <<"x">>, <<"x">>>>,
          <<USDate(d), <<" ">>, <<"x">>>>}
    ELSE {<<isoformat(d), <<"x">>>>, <<USDate(d), <<"x">>>>}

\* at most n rows for distinct days up to dmax, newest first
RECURSIVE StatsRowSeqs(_, _, _)
StatsRowSeqs(h, dmax, n) ==
    {<<>>} \cup
    IF n = 0 THEN {}
    ELSE UNION {{<<r>> \o s : r \in StatsRows(h, d), s \in StatsRowSeqs(h, d - 1, n - 1)} : d \in 1..dmax}

\* the file the first run finds: none, or a header and rows of past days
StatsFiles ==
    {NoFile} \cup UNION {{<<h>> \o rows : rows \in StatsRowSeqs(h, Yesterday, MaxRows)} : h \in {headers, old_headers}}

InitStats ==
    /\ dataset = "garmin_stats"
    /\ CSV_FILE \in StatsFiles
    /\ garmin = <<>>

InitRest ==
    /\ pc = "idle"
    /\ script = ""
    /\ BACKFILL_MODE = FALSE
    /\ FORCE_MODE = FALSE
    /\ START_DATE = 0
    /\ current_date = 0
    /\ existing_dates = {}
    /\ existing_data = EmptyDict
    /\ all_rows = <<>>
    /\ wbuf = <<>>
    /\ runs = 0
    /\ file0 = CSV_FILE
    /\ fetched = EmptyDict
    /\ load_error = FALSE
    /\ killed_at = ""
    /\ repeat = FALSE

\* the activities the API holds: at most n, newest first, the i-th one named a<i>
Title(i) == <<"a">> \o Decimal(i)
RECURSIVE ActBatches(_, _, _)
ActBatches(n, dmax, i) ==
    {<<>>} \cup
    IF n = 0 THEN {}
    ELSE UNION {{<<[day |-> d, time |-> <<"7">>, title |-> Title(i)]>> \o s :
                    s \in ActBatches(n - 1, d, i + 1)} : d \in 1..dmax}

\* at most n stored rows for distinct days up to dmax, newest first
RECURSIVE ActRowSeqs(_, _)
ActRowSeqs(dmax, n) ==
    {<<>>} \cup
    IF n = 0 THEN {}
    ELSE UNION {{<<<<dt, <<"7">>, <<"p">>>>>> \o s : dt \in {isoformat(d), USDate(d)},
                                                  s \in ActRowSeqs(d - 1, n - 1)} : d \in 1..dmax}

ActFiles == {NoFile} \cup {<<HEADERS>> \o rows : rows \in ActRowSeqs(MaxDay, MaxRows)}

InitActivities ==
    /\ dataset = "garmin_activities"
    /\ CSV_FILE \in ActFiles
    /\ garmin \in ActBatches(MaxBatch, MaxDay, 1)

Init ==
    /\ InitStats \/ InitActivities
    /\ InitRest
    /\ hevy_stats_df = <<>> /\ exercise_db_df = <<>> /\ plan = <<>>
    /\ HevyIdle
    /\ DateIdle
    /\ chunks = <<>>

\* the command lines: no flag, --backfill, --force (with both flags the
\* script takes the force branch everywhere, as with --force alone)
Modes == {<<FALSE, FALSE>>, <<TRUE, FALSE>>, <<FALSE, TRUE>>}

Next ==
    \/ \E m \in Modes, st \in {DEFAULT_START_DATE} : hgi_load(m[1], m[2], st)
    \/ \E vals \in Incoming : hgi_day(vals)
    \/ hgi_finish
    \/ \E vals \in Incoming : save_to_csv(Yesterday, vals)
    \/ \E vals \in Incoming : daily_garmin_health(Today, vals)
    \/ daily_garmin_activities
    \/ \E fm \in BOOLEAN, st \in {DEFAULT_START_DATE} : hga_load(fm, st)
    \/ hga_chunk(TRUE)
    \/ hga_finish
    \/ writer_call

Spec == Init /\ [][Next]_vars

NextF ==
    \/ Next
    \/ \E m \in Modes, st \in {DEFAULT_START_DATE}, n \in 0..MaxDay : hgi_load_fail(m[1], m[2], st, n)
    \/ \E vals \in Incoming, n \in 0..MaxDay : save_to_csv_fail(Yesterday, vals, n)
    \/ \E n \in 0..MaxDay, ok \in BOOLEAN : dga_fail(n, ok)
    \/ \E fm \in BOOLEAN, st \in {DEFAULT_START_DATE}, n \in 0..MaxDay : hga_load_fail(fm, st, n)
    \/ hga_chunk(FALSE)
    \/ Interrupt

SpecF == Init /\ [][NextF]_vars

\* Gemini_Hevy.py on a workout log, or on a generated plan
InitHevy ==
    /\ dataset = "hevy"
    /\ CSV_FILE = NoFile
    /\ garmin = <<>>
    /\ \/ /\ \E n \in 0..MaxSets : hevy_stats_df \in [1..n -> LogRows]
          /\ NewestFirst(hevy_stats_df)
          /\ exercise_db_df \in Catalogs
          /\ plan = <<>>
       \/ hevy_stats_df = <<>> /\ exercise_db_df = UniqueTitles /\ plan \in Plans
    /\ InitRest
    /\ HevyIdle
    /\ DateIdle
    /\ chunks = <<>>

NextHevy == hevy_aggregate \/ hevy_trends \/ hevy_validate \/ hevy_post

SpecHevy == InitHevy /\ [][NextHevy]_vars

\* Gemini_Hevy.py on a generated plan; the script is one thread that runs
\* to its end
InitPlan ==
    /\ InitHevy
    /\ hevy_stats_df = <<>>

SpecPlan == InitPlan /\ [][NextHevy]_vars /\ WF_vars(NextHevy)

\* normalize_date of one of the scripts, called on the text of a date cell
InitDate ==
    /\ dataset = "dates"
    /\ CSV_FILE = NoFile
    /\ garmin = <<>>
    /\ hevy_stats_df = <<>> /\ exercise_db_df = <<>> /\ plan = <<>>
    /\ InitRest
    /\ HevyIdle
    /\ date_cell \in DateTexts
    /\ normalizer \in Normalizers
    /\ normalized = NotCalled
    /\ renormalized = NotCalled
    /\ chunks = <<>>

NextDate == call_normalize_date \/ call_normalize_date_again

SpecDate == InitDate /\ [][NextDate]_vars

\* a historical fetch from START_DATE to today: current = start
InitChunk ==
    /\ dataset = "chunks"
    /\ CSV_FILE = NoFile
    /\ garmin = <<>>
    /\ hevy_stats_df = <<>> /\ exercise_db_df = <<>> /\ plan = <<>>
    /\ HevyIdle
    /\ DateIdle
    /\ chunks = <<>>
    /\ pc = "loop"
    /\ script = "history_garmin_activities"
    /\ BACKFILL_MODE = FALSE
    /\ FORCE_MODE = FALSE
    /\ START_DATE \in ChunkStarts
    /\ current_date = START_DATE
    /\ existing_dates = {}
    /\ existing_data = EmptyDict
    /\ all_rows = <<>>
    /\ wbuf = <<>>
    /\ runs = 1
    /\ file0 = CSV_FILE
    /\ fetched = <<>>
    /\ load_error = FALSE
    /\ killed_at = ""
    /\ repeat = FALSE

NextChunk == fetch_chunk \/ fetch_done

SpecChunk == InitChunk /\ [][NextChunk]_vars

\* ================================================================ properties
\* the Record Key of a stored row: the normalized date (daily rows), the
\* (date, time) pair (activity rows)
KeyOf(row) ==
    IF dataset = "garmin_stats" THEN <<normalize_date(row[1])>> ELSE <<row[1], row[2]>>

KeysOf(f) == {KeyOf(DataRows(f)[i]) : i \in 1..Len(DataRows(f))}
RowsAt(f, k) == {i \in 1..Len(DataRows(f)) : KeyOf(DataRows(f)[i]) = k}

\* the cell of a row of file f under column name c; a column the file does
\* not have reads as empty
FieldOf(f, row, c) ==
    IF c \in Range(f[1]) /\ index(f[1], c) <= Len(row) THEN row[index(f[1], c)] ELSE <<>>

Schema == IF dataset = "garmin_stats" THEN headers ELSE HEADERS

NormalRun ==
    /\ script \in {"history_garmin_import", "daily_garmin_activities", "history_garmin_activities"}
    /\ ~BACKFILL_MODE /\ ~FORCE_MODE

\* C1: a Normal run repeated with the same arguments on the same API data,
\* after a first run that completed, inserts nothing: the file it leaves is
\* the file the first run left.
C1_NormalIdempotent ==
    (pc = "done" /\ RunOk /\ NormalRun /\ repeat) => CSV_FILE = file0

\* a second daily_garmin_activities run over a batch whose activities are all stored
C1_Witness ==
    /\ pc = "done" /\ script = "daily_garmin_activities" /\ repeat
    /\ fetched # <<>>
    /\ \A i \in 1..Len(fetched) : fetched[i] \in Range(DataRows(CSV_FILE))

\* C2: after a completed run the file holds no two rows with the same Record Key.
C2_KeyUnique ==
    (pc = "done" /\ RunOk) => \A k \in KeysOf(CSV_FILE) : Cardinality(RowsAt(CSV_FILE, k)) = 1

BackfillRun == script = "history_garmin_import" /\ BACKFILL_MODE /\ ~FORCE_MODE

\* the values of the stored fields, under the keys of the batch, that the
\* file no longer holds as they were
Regressed ==
    {FieldOf(file0, DataRows(file0)[i[2]], i[3]) :
        i \in {t \in (DOMAIN fetched) \X (1..Len(DataRows(file0))) \X Range(file0[1]) :
                  /\ t[2] \in RowsAt(file0, <<t[1]>>)
                  /\ \/ RowsAt(CSV_FILE, <<t[1]>>) = {}
                     \/ \E j \in RowsAt(CSV_FILE, <<t[1]>>) :
                           FieldOf(CSV_FILE, DataRows(CSV_FILE)[j], t[3])
                               # FieldOf(file0, DataRows(file0)[t[2]], t[3])}}

\* C3 as stated: a completed backfill leaves every non-empty stored field
\* of a key of the batch as it was.
C3_BackfillKeepsNonEmpty ==
    (pc = "done" /\ RunOk /\ BackfillRun) => \A v \in Regressed : v = <<>>

\* C3 amended: a completed backfill leaves every stored field that holds
\* more than white space as it was, whatever the batch carries for it.
C3_BackfillKeepsNonBlank ==
    (pc = "done" /\ RunOk /\ BackfillRun) => \A v \in Regressed : Strip(v) = <<>>

\* a backfill met a stored field holding x for which the batch carried y
C3_Witness ==
    /\ pc = "done" /\ BackfillRun
    /\ \E d \in DOMAIN fetched : \E i \in RowsAt(file0, <<d>>) : \E c \in Range(file0[1]) \ {HDate} :
          /\ Strip(FieldOf(file0, DataRows(file0)[i], c)) # <<>>
          /\ fetched[d][index(headers, c)] \notin {None, FieldOf(file0, DataRows(file0)[i], c)}

ForceRun ==
    \/ script \in {"history_garmin_import", "history_garmin_activities"} /\ FORCE_MODE
    \/ script \in {"update_yesterday_garmin", "daily_garmin_health"}

\* the rows of the batch of the current run, as csv writes them, with their keys
BatchRows ==
    IF dataset = "garmin_stats" THEN {writerow(fetched[d]) : d \in DOMAIN fetched}
    ELSE {writerow(fetched[i]) : i \in 1..Len(fetched)}
BatchKeys == {KeyOf(r) : r \in BatchRows}

\* C4: after a completed force run every key of the batch that was stored
\* is still stored, and each row stored under it is a row of the batch.
C4_ForceAdoptsIncoming ==
    (pc = "done" /\ RunOk /\ ForceRun) =>
        \A k \in BatchKeys \cap KeysOf(file0) :
            /\ RowsAt(CSV_FILE, k) # {}
            /\ \A j \in RowsAt(CSV_FILE, k) : DataRows(CSV_FILE)[j] \in BatchRows

\* a force run replaced a stored row by a different row of the batch
C4_Witness ==
    /\ pc = "done" /\ ForceRun
    /\ \E k \in BatchKeys \cap KeysOf(file0) :
          \E i \in RowsAt(file0, k) : DataRows(file0)[i] \notin BatchRows

\* C5: a run killed while it rewrites the file leaves the file it found.
C5_NoPartialWrite ==
    (pc = "killed" /\ killed_at = "write") => CSV_FILE = file0

\* C6: a run whose load raised ends without having changed the file.
C6_LoadErrorAborts ==
    (pc = "done" /\ load_error) => CSV_FILE = file0

\* C7: a run killed inside its fetch loop has put no record on disk.
C7_NothingPersistedMidFetch ==
    (pc = "killed" /\ killed_at = "loop") => DataRows(CSV_FILE) = DataRows(file0)

\* C8: a day whose fetch gave nothing leaves the stored record of that day
\* as it was, in every mode.
C8_EmptyFetchChangesNothing ==
    (pc = "done" /\ RunOk /\ script = "history_garmin_import") =>
        \A d \in DOMAIN fetched :
            fetched[d] = <<d, None, None>> =>
                \A i \in RowsAt(file0, <<d>>) : \A c \in Range(file0[1]) :
                    /\ RowsAt(CSV_FILE, <<d>>) # {}
                    /\ \A j \in RowsAt(CSV_FILE, <<d>>) :
                          FieldOf(CSV_FILE, DataRows(CSV_FILE)[j], c) = FieldOf(file0, DataRows(file0)[i], c)

\* C9: after a completed run the rows are in descending key order.
C9_SortedNewestFirst ==
    (pc = "done" /\ RunOk) =>
        \A i \in 1..(Len(DataRows(CSV_FILE)) - 1) :
            ~TupleLess(KeyOf(DataRows(CSV_FILE)[i]), KeyOf(DataRows(CSV_FILE)[i + 1]))

\* C10: after a completed run the file starts with the schema and every
\* row has as many cells as the header.
C10_FileShape ==
    (pc = "done" /\ RunOk /\ CSV_FILE # NoFile) =>
        /\ CSV_FILE # <<>>
        /\ CSV_FILE[1] = Schema
        /\ \A i \in 1..Len(DataRows(CSV_FILE)) : Len(DataRows(CSV_FILE)[i]) = Len(CSV_FILE[1])

\* C11: a completed run that found a file with the older header leaves every
\* row it did not refetch readable under the names of the current schema:
\* the columns of both headers as they were, the added column empty.
C11_SchemaDriftRemapped ==
    (pc = "done" /\ RunOk /\ dataset = "garmin_stats" /\ file0 # NoFile /\ file0 # <<>>
        /\ file0[1] = old_headers) =>
        \A i \in 1..Len(DataRows(file0)) :
            KeyOf(DataRows(file0)[i]) \notin BatchKeys =>
                /\ RowsAt(CSV_FILE, KeyOf(DataRows(file0)[i])) # {}
                /\ \A j \in RowsAt(CSV_FILE, KeyOf(DataRows(file0)[i])) : \A c \in Range(headers) :
                      FieldOf(CSV_FILE, DataRows(CSV_FILE)[j], c) = FieldOf(file0, DataRows(file0)[i], c)

\* the keys that two or more records of the batch carry
SharedBatchKeys ==
    IF dataset = "garmin_stats" THEN {}
    ELSE {k \in BatchKeys : Cardinality({i \in 1..Len(fetched) : KeyOf(fetched[i]) = k}) > 1}

\* C12: after a completed Normal or Force pass over activities, a key that
\* two records of the batch share is stored at most once.
C12_SharedKeyStoredOnce ==
    (pc = "done" /\ RunOk /\ (NormalRun \/ ForceRun)) =>
        \A k \in SharedBatchKeys : Cardinality(RowsAt(CSV_FILE, k)) <= 1

\* ------------------------------------------------ Gemini_Hevy.py: properties
Aggregated == aggregated_stats # Pending /\ aggregated_stats # NoResult
Classified == strength_trends # Pending /\ strength_trends # NoResult

\* the rows of the log dated in the last `months` months
WindowRows(months) == {i \in 1..Len(hevy_stats_df) : hevy_stats_df[i].Date >= Now - months}
OneRm(i) == calculate_one_rep_max(hevy_stats_df[i].Weight, hevy_stats_df[i].Reps)

\* the unrounded trend of a classified exercise, in percent
TrendPct(t) == FracMul(FracDiv(FracSub(t.Recent_1RM, t.AllTime_1RM), t.AllTime_1RM), Frac(100, 1))

\* C13: every classified exercise with a positive history maximum is
\* labelled PLATEAU exactly when -2 <= trend_pct <= 2, REGRESSING exactly
\* when trend_pct < -2 and PROGRESSING otherwise, trend_pct being
\* (recent_max - history_max) / history_max * 100.
C13_TrendClassification ==
    Classified =>
        \A i \in 1..Len(strength_trends.trends) :
            LET t == strength_trends.trends[i]
            IN  t.AllTime_1RM.n > 0 =>
                    t.Status = IF /\ ~FracLess(TrendPct(t), Frac(-2, 1))
                                  /\ ~FracLess(Frac(2, 1), TrendPct(t)) THEN "PLATEAU"
                               ELSE IF FracLess(TrendPct(t), Frac(-2, 1)) THEN "REGRESSING"
                               ELSE "PROGRESSING"

RECURSIVE SummaryTotal(_, _, _)
SummaryTotal(summary, groups, column) ==
    IF groups = {} THEN 0
    ELSE LET g == CHOOSE x \in groups : TRUE
         IN  summary[g][column] + SummaryTotal(summary, groups \ {g}, column)

RECURSIVE VolumeOf(_)
VolumeOf(rows) ==
    IF rows = {} THEN 0
    ELSE LET i == CHOOSE x \in rows : TRUE
         IN  hevy_stats_df[i].Weight * hevy_stats_df[i].Reps + VolumeOf(rows \ {i})

\* C14: the set counts of the muscle-group summary add up to the number of
\* sets in the window and its volumes to the volume of the window, also
\* when an exercise is in no catalog entry.
C14_UnknownExerciseCounted ==
    Aggregated =>
        LET summary == aggregated_stats.muscle_group_summary
        IN  /\ SummaryTotal(summary, DOMAIN summary, "Total_Sets") = Cardinality(WindowRows(AggMonths))
            /\ SummaryTotal(summary, DOMAIN summary, "Total_Volume_lbs")
                   = 100 * VolumeOf(WindowRows(AggMonths))

\* C15: the weight and the reps reported for an exercise are those of one
\* set of it in the window, whose estimated 1RM is the reported maximum.
C15_PrFromOneSet ==
    Aggregated =>
        \A k \in 1..Len(aggregated_stats.exercise_prs) :
            LET pr == aggregated_stats.exercise_prs[k]
            IN  \E i \in WindowRows(AggMonths) :
                    /\ hevy_stats_df[i].Exercise = pr.Exercise
                    /\ 100 * hevy_stats_df[i].Weight = pr.Max_Weight
                    /\ hevy_stats_df[i].Reps = pr.Max_Reps
                    /\ Round2(OneRm(i)) = pr.Estimated_1RM

\* C16: for every set the aggregation went through, the estimated 1RM is 0
\* when the weight or the reps are 0, and otherwise 30 times it is
\* weight * (30 + reps).
C16_OneRepMax ==
    aggregated_stats # Pending =>
        \A i \in 1..Len(hevy_stats_df) :
            LET weight == hevy_stats_df[i].Weight
                reps == hevy_stats_df[i].Reps
            IN  IF weight = 0 \/ reps = 0 THEN OneRm(i).n = 0
                ELSE 30 * OneRm(i).n = weight * (30 + reps) * OneRm(i).d

\* the aggregation went through a set with a weight and no reps and a set
\* with both
C16_Witness ==
    /\ aggregated_stats # Pending
    /\ \E i, k \in 1..Len(hevy_stats_df) :
          /\ hevy_stats_df[i].Weight > 0 /\ hevy_stats_df[i].Reps = 0
          /\ hevy_stats_df[k].Weight > 0 /\ hevy_stats_df[k].Reps > 0 /\ OneRm(k).n > 0

\* the sets of the window whose stripped name is a catalog title of group g
GroupRows(g) ==
    {i \in WindowRows(AggMonths) :
        \E e \in 1..Len(exercise_db_df) :
            /\ Strip(exercise_db_df[e].title) = Strip(hevy_stats_df[i].Exercise)
            /\ exercise_db_df[e].primary_muscle_group = g}
CatalogGroups == {exercise_db_df[e].primary_muscle_group : e \in 1..Len(exercise_db_df)}

\* C17 as stated: each group of the summary reports the maximum estimated
\* 1RM, the volume and the number of the sets of the group in the window.
C17_GroupSummaryExact ==
    Aggregated =>
        LET summary == aggregated_stats.muscle_group_summary
        IN  /\ DOMAIN summary = {g \in CatalogGroups : GroupRows(g) # {}}
            /\ \A g \in DOMAIN summary :
                  /\ \E i \in GroupRows(g) : summary[g].Max_1RM_lbs * OneRm(i).d = 100 * OneRm(i).n
                  /\ \A i \in GroupRows(g) : 100 * OneRm(i).n <= summary[g].Max_1RM_lbs * OneRm(i).d
                  /\ summary[g].Total_Volume_lbs = 100 * VolumeOf(GroupRows(g))
                  /\ summary[g].Total_Sets = Cardinality(GroupRows(g))

\* C17 with the rounding the code applies: each group of the summary
\* reports the maximum estimated 1RM of its sets in the window rounded to
\* two decimals, and their exact volume and number; sets outside the window
\* count nowhere.
C17_GroupSummaryRounded ==
    Aggregated =>
        LET summary == aggregated_stats.muscle_group_summary
        IN  /\ DOMAIN summary = {g \in CatalogGroups : GroupRows(g) # {}}
            /\ \A g \in DOMAIN summary :
                  /\ \E i \in GroupRows(g) : summary[g].Max_1RM_lbs = Round2(OneRm(i))
                  /\ \A i \in GroupRows(g) : Round2(OneRm(i)) <= summary[g].Max_1RM_lbs
                  /\ summary[g].Total_Volume_lbs = 100 * VolumeOf(GroupRows(g))
                  /\ summary[g].Total_Sets = Cardinality(GroupRows(g))

\* a group with a set inside the window and a set outside of it
C17_Witness ==
    /\ Aggregated
    /\ \E g \in DOMAIN aggregated_stats.muscle_group_summary :
          /\ aggregated_stats.muscle_group_summary[g].Total_Volume_lbs > 0
          /\ \E i \in 1..Len(hevy_stats_df) :
                /\ i \notin WindowRows(AggMonths)
                /\ hevy_stats_df[i].Weight * hevy_stats_df[i].Reps > 0
                /\ \E j \in GroupRows(g) : hevy_stats_df[j].Exercise = hevy_stats_df[i].Exercise

NamesIn(rows) == {hevy_stats_df[i].Exercise : i \in rows}
ClassifiedNames ==
    IF Classified THEN {strength_trends.trends[i].Exercise : i \in 1..Len(strength_trends.trends)}
    ELSE {}

\* C18: the classified exercises are exactly those with a set in the
\* recent window and a set in the history window, each of them once.
C18_ClassifiedInBothWindows ==
    strength_trends # Pending =>
        /\ ClassifiedNames = NamesIn(WindowRows(RecentMonths)) \cap NamesIn(WindowRows(HistoryMonths))
        /\ Classified => Len(strength_trends.trends) = Cardinality(ClassifiedNames)

\* one exercise is classified, another one has sets in the history window only
C18_Witness ==
    /\ Classified
    /\ NamesIn(WindowRows(HistoryMonths)) \ ClassifiedNames # {}

\* C19: the aggregation returns None exactly when no set is in its window,
\* and the classification returns None when the history window or the
\* recent window holds no set.
C19_NoDataIsNone ==
    /\ aggregated_stats # Pending =>
          (aggregated_stats = NoResult <=> WindowRows(AggMonths) = {})
    /\ strength_trends # Pending =>
          ((WindowRows(HistoryMonths) = {} \/ WindowRows(RecentMonths) = {}) => strength_trends = NoResult)

\* a log whose sets are all older than the windows gave None twice
C19_Witness ==
    /\ hevy_stats_df # <<>>
    /\ aggregated_stats = NoResult
    /\ strength_trends = NoResult

\* the normal sets of exercise x of routine r of the plan
NormalSets(r, x) == {i \in 1..Len(plan[r].exercises[x].sets) : plan[r].exercises[x].sets[i].type = "normal"}
WarningsFor(r, x) ==
    {i \in 1..Len(loading_warnings.warnings) :
        /\ loading_warnings.warnings[i].routine = plan[r].title
        /\ loading_warnings.warnings[i].exercise_id = plan[r].exercises[x].exercise_template_id}

\* C20: an exercise gets exactly one warning when it has two or more normal
\* sets, all of one weight, and none otherwise; the warning carries that
\* weight and the number of normal sets.
C20_StraightSetsWarned ==
    loading_warnings # Pending =>
        \A r \in 1..Len(plan) : \A x \in 1..Len(plan[r].exercises) :
            LET sets == plan[r].exercises[x].sets
                static == /\ Cardinality(NormalSets(r, x)) >= 2
                          /\ \A i, j \in NormalSets(r, x) : sets[i].weight_kg = sets[j].weight_kg
            IN  IF static
                THEN /\ Cardinality(WarningsFor(r, x)) = 1
                     /\ \A w \in WarningsFor(r, x) : \A i \in NormalSets(r, x) :
                           loading_warnings.warnings[w].issue
                               = <<sets[i].weight_kg, Cardinality(NormalSets(r, x))>>
                ELSE WarningsFor(r, x) = {}

\* three normal sets at 40 were warned about, a set of another type among them or not
C20_Witness ==
    /\ loading_warnings # Pending
    /\ \E i \in 1..Len(loading_warnings.warnings) : loading_warnings.warnings[i].issue = <<40, 3>>

AllDigits(t, n) == Len(t) = n /\ \A i \in 1..Len(t) : IsDigit(t[i])

\* M/D/YYYY or MM/DD/YYYY: three parts of digits, one or two for the month
\* and the day, four for the year
IsUSForm(t) ==
    /\ Len(Split(t, "/")) = 3
    /\ \E n \in 1..2 : AllDigits(Split(t, "/")[1], n)
    /\ \E n \in 1..2 : AllDigits(Split(t, "/")[2], n)
    /\ AllDigits(Split(t, "/")[3], 4)

\* YYYY-MM-DD
IsISOForm(t) ==
    /\ Len(Split(t, "-")) = 3
    /\ AllDigits(Split(t, "-")[1], 4)
    /\ AllDigits(Split(t, "-")[2], 2)
    /\ AllDigits(Split(t, "-")[3], 2)

TwoDigits(t) == IF Len(t) = 1 THEN <<"0">> \o t ELSE t

\* C22: a slash date M/D/YYYY or MM/DD/YYYY comes back as YYYY-MM-DD with
\* month and day padded to two digits, an ISO date comes back as it is,
\* and normalizing the result again gives the same result.
C22_NormalizeToIso ==
    (IsUSForm(date_cell) \/ IsISOForm(date_cell)) =>
        /\ (pc # "idle" /\ IsUSForm(date_cell)) =>
               normalized = Split(date_cell, "/")[3] \o <<"-">> \o TwoDigits(Split(date_cell, "/")[1])
                                \o <<"-">> \o TwoDigits(Split(date_cell, "/")[2])
        /\ (pc # "idle" /\ IsISOForm(date_cell)) => normalized = date_cell
        /\ pc # "idle" => IsISOForm(normalized)
        /\ pc = "renormalized" => renormalized = normalized

\* 3/4/2024 was normalized to 2024-03-04, and that normalized again
C22_Witness ==
    /\ pc = "renormalized"
    /\ date_cell = <<"3", "/", "4", "/", "2", "0", "2", "4">>
    /\ normalized = <<"2", "0", "2", "4", "-", "0", "3", "-", "0", "4">>

\* C23: for every text the call returns, and for a text in neither form it
\* returns the text it was given.
C23_NormalizerTotal ==
    pc # "idle" =>
        /\ normalized # ValueError
        /\ (~IsUSForm(date_cell) /\ ~IsISOForm(date_cell)) => normalized = date_cell

\* ------------------------------------------------- reconciliation: frame
\* row i of the file the run found is still stored, under its key, with
\* every field of it as it was
Kept(i) ==
    /\ CSV_FILE # NoFile /\ CSV_FILE # <<>>
    /\ \E j \in RowsAt(CSV_FILE, KeyOf(DataRows(file0)[i])) : \A c \in Range(file0[1]) :
          FieldOf(CSV_FILE, DataRows(CSV_FILE)[j], c) = FieldOf(file0, DataRows(file0)[i], c)

\* C24: a Normal run that ran to its end leaves every record it found in
\* the store, with every field value as it was.
C24_NormalOnlyAdds ==
    (pc = "done" /\ killed_at = "" /\ NormalRun) =>
        \A i \in 1..Len(DataRows(file0)) : Kept(i)

\* C25: a run with --force that ran to its end leaves every stored record whose
\* key is not in the incoming batch in the store, as it was.
C25_ForceKeepsUnfetched ==
    (pc = "done" /\ RunOk /\ FORCE_MODE) =>
        \A i \in 1..Len(DataRows(file0)) :
            KeyOf(DataRows(file0)[i]) \notin BatchKeys => Kept(i)

\* C26: after a completed backfill, under every key of the batch that was
\* stored, every field the stored record had empty or did not have (a
\* column the old header lacks) holds what the batch carries for it.
C26_BackfillFillsGaps ==
    (pc = "done" /\ RunOk /\ BackfillRun) =>
        \A d \in DOMAIN fetched : \A i \in RowsAt(file0, <<d>>) : \A c \in Range(headers) :
            FieldOf(file0, DataRows(file0)[i], c) = <<>> =>
                /\ RowsAt(CSV_FILE, <<d>>) # {}
                /\ \A j \in RowsAt(CSV_FILE, <<d>>) :
                      FieldOf(CSV_FILE, DataRows(CSV_FILE)[j], c) = CsvCell(fetched[d][index(headers, c)])

\* a backfill filled the BP field of a row stored under the old header,
\* which has no BP column, with the value of the batch
C26_Witness ==
    /\ pc = "done" /\ RunOk /\ BackfillRun
    /\ file0 # NoFile
    /\ \E d \in DOMAIN fetched : \E i \in RowsAt(file0, <<d>>) :
          /\ FieldOf(file0, DataRows(file0)[i], HBP) = <<>>
          /\ fetched[d][index(headers, HBP)] = <<"y">>
          /\ \E j \in RowsAt(CSV_FILE, <<d>>) : FieldOf(CSV_FILE, DataRows(CSV_FILE)[j], HBP) = <<"y">>
          /\ file0[1] = old_headers

\* ------------------------------------------------- chunk loop: properties
\* the chunks asked of the API that hold day d
ChunksWith(d) == {i \in 1..Len(chunks) : chunks[i][1] <= d /\ d <= chunks[i][2]}

\* C27: when the chunk loop has ended, every day from the start date
\* through today lies in exactly one chunk asked of the API.
C27_ChunksCoverRange ==
    (dataset = "chunks" /\ pc = "done") =>
        \A d \in START_DATE..MaxChunkDay : Cardinality(ChunksWith(d)) = 1

\* ------------------------------------------- Gemini_Hevy.py: more properties
\* C28: for every classified exercise the recent maximum is at most the
\* history maximum, and where the history maximum is not zero the trend is
\* a number, at most 0, and the label is not PROGRESSING.
C28_NeverProgressing ==
    Classified =>
        \A i \in 1..Len(strength_trends.trends) :
            LET t == strength_trends.trends[i]
            IN  /\ ~FracLess(t.AllTime_1RM, t.Recent_1RM)
                /\ t.AllTime_1RM.n # 0 =>
                      /\ ~t.Trend_Pct_isnan
                      /\ t.Trend_Pct <= 0
                      /\ t.Status # "PROGRESSING"

\* an exercise whose recent sets are all lighter than an older set of the
\* history window was classified
C28_Witness ==
    /\ Classified
    /\ \E i \in 1..Len(strength_trends.trends) :
          /\ strength_trends.trends[i].Recent_1RM.n > 0
          /\ FracLess(strength_trends.trends[i].Recent_1RM, strength_trends.trends[i].AllTime_1RM)

\* C29: every classified exercise has a history maximum above 0.
C29_TrendDefined ==
    Classified =>
        \A i \in 1..Len(strength_trends.trends) : strength_trends.trends[i].AllTime_1RM.n > 0

\* the sets of the window whose stripped name is a catalog title
Matched == UNION {GroupRows(g) : g \in CatalogGroups}

\* C30: every set of the window that has a catalog entry is counted once:
\* the set counts of the summary add up to the number of these sets and
\* its volumes to their volume, also when a title is in two catalog rows.
C30_SetCountedOnce ==
    Aggregated =>
        LET summary == aggregated_stats.muscle_group_summary
        IN  /\ SummaryTotal(summary, DOMAIN summary, "Total_Sets") = Cardinality(Matched)
            /\ SummaryTotal(summary, DOMAIN summary, "Total_Volume_lbs") = 100 * VolumeOf(Matched)

====
